---- MODULE Spec2Model ----
(***************************************************************************)
(* The chat hook of the front end: useChat (frontend/src/hooks/useChat.ts) *)
(* folds the server-sent events of a turn into typed blocks, and useSSE    *)
(* (frontend/src/hooks/useSSE.ts) owns the EventSource that feeds it.      *)
(*                                                                         *)
(* Strings the code only stores and compares are TLC strings; ids are      *)
(* built as the code builds them (`block-${n}`, `msg-${n}`); the text the  *)
(* user types is a sequence of characters, because the code trims it.      *)
(***************************************************************************)
EXTENDS Integers, Sequences, FiniteSets, TLC

VARIABLES
    messages,               \* useState<Message[]>
    streamingBlocks,        \* useState<Block[]>
    isLoading,              \* useState(false)
    blocksRef,              \* useRef<Block[]>
    streamingMessageIdRef,  \* useRef<string | null>
    blockIdCounter,         \* module-level counter of nextBlockId
    messageIdCounter,       \* module-level counter of nextMessageId
    eventSourceRef,         \* useSSE: useRef<EventSource | null>
    sources,                \* the EventSource objects created and not yet closed
    sourceCounter,          \* how many EventSource objects were ever constructed
    pendingFetch,           \* POST /api/chat requests awaited by sendMessage
    log,                    \* the operations applied to the hook so far, in order
    limit                   \* how many operations a behaviour of the model applies at most

vars == <<messages, streamingBlocks, isLoading, blocksRef, streamingMessageIdRef,
          blockIdCounter, messageIdCounter, eventSourceRef, sources, sourceCounter,
          pendingFetch, log, limit>>

-----------------------------------------------------------------------------
(* Bounds and input sets *)

MaxOps == 5

MaxOpsA == 7

MaxOpsS == 5

MaxOpsP == 5

null == "<null>"

Email == "user@example.com"

Whitespace == {" "}

Texts == {<<" ", "h", "i">>, <<" ">>}

Contents == {"a", "b"}

ToolNames == {"query_data"}

ToolArgs == {[sql |-> "SELECT 1"]}

ToolResults == {"1"}

Jsons == {"{}"}

ErrorMessages == {"timeout"}

\* frames no case of handleSSEMessage takes: not JSON, no type, a type outside the enum
OtherFrames ==
    {[decodable |-> FALSE, type |-> null],
     [decodable |-> TRUE, type |-> null],
     [decodable |-> TRUE, type |-> "warning", message |-> "slow"],
     [decodable |-> TRUE, type |-> "retrying", content |-> "a"]}

\* Scenario A: the events of one turn that thinks, queries and answers
ThinkingA == {"Let me check ", "the data."}

AnswerA == "The value is 1."

ScenarioA ==
    <<[type |-> "thinking", content |-> "Let me check "],
      [type |-> "thinking", content |-> "the data."],
      [type |-> "tool_call_start", name |-> "query_data", args |-> [sql |-> "SELECT 1"]],
      [type |-> "tool_call_result", result |-> "1"],
      [type |-> "text", content |-> AnswerA],
      [type |-> "done"]>>

-----------------------------------------------------------------------------
(* types/chat.ts *)

SSEEventType ==
    [THINKING |-> "thinking", TEXT |-> "text", TOOL_CALL_START |-> "tool_call_start",
     TOOL_CALL_RESULT |-> "tool_call_result", PLOTLY |-> "plotly",
     DATA_TABLE |-> "data_table", DONE |-> "done", ERROR |-> "error"]

BlockType ==
    [THINKING |-> "thinking", TEXT |-> "text", TOOL_CALL |-> "tool_call",
     PLOTLY |-> "plotly", DATA_TABLE |-> "data_table", ERROR |-> "error"]

ToolCallStatus == [RUNNING |-> "running", DONE |-> "done"]

-----------------------------------------------------------------------------
(* Helpers of useChat *)

nextBlockIdNoIncrement(counter) == "block-1"

nextBlockId(counter) == "block-" \o ToString(counter + 1)

nextMessageId(counter) == "msg-" \o ToString(counter + 1)

RECURSIVE TrimStart(_)
TrimStart(s) ==
    IF Len(s) > 0 /\ Head(s) \in Whitespace THEN TrimStart(Tail(s)) ELSE s

RECURSIVE TrimEnd(_)
TrimEnd(s) ==
    IF Len(s) > 0 /\ s[Len(s)] \in Whitespace THEN TrimEnd(SubSeq(s, 1, Len(s) - 1)) ELSE s

Trim(s) == TrimEnd(TrimStart(s))

noBlock == [id |-> null, type |-> null]

getNoBlock(blocks) == noBlock

getLastBlock(blocks) ==
    IF Len(blocks) > 0 THEN blocks[Len(blocks)] ELSE noBlock

addBlockInFront(blocks, counter, block) ==
    <<[id |-> nextBlockId(counter)] @@ block>> \o blocks

addBlockOverLast(blocks, counter, block) ==
    SubSeq(blocks, 1, Len(blocks) - 1) \o <<[id |-> nextBlockId(counter)] @@ block>>

\* blocksRef.current after addBlock(block), the id taken from nextBlockId()
addBlock(blocks, counter, block) ==
    Append(blocks, [id |-> nextBlockId(counter)] @@ block)

replaceContent(b, chunk) == [b EXCEPT !.content = chunk]

appendContent(b, chunk) == [b EXCEPT !.content = @ \o chunk]

\* blocksRef.current after updateLastBlock(b => ({...b, content: b.content + chunk}))
updateLastBlock(blocks, chunk) ==
    IF Len(blocks) = 0 THEN blocks
    ELSE SubSeq(blocks, 1, Len(blocks) - 1) \o <<appendContent(blocks[Len(blocks)], chunk)>>

isRunningToolCall(b) ==
    b.type = BlockType.TOOL_CALL /\ b.status = ToolCallStatus.RUNNING

\* Array.prototype.findLastIndex with the predicate of the code, 1-based; 0 for -1
findLastRunning(blocks) ==
    LET hits == {i \in 1..Len(blocks) : isRunningToolCall(blocks[i])}
    IN IF hits = {} THEN 0 ELSE CHOOSE i \in hits : \A j \in hits : j <= i

markNoToolCallDone(blocks) == blocks

markLastToolCallDone(blocks) ==
    LET idx == findLastRunning(blocks)
    IN IF idx # 0
       THEN [blocks EXCEPT ![idx] = [@ EXCEPT !.status = ToolCallStatus.DONE]]
       ELSE blocks

setResultOfLastToolCall(blocks, result) ==
    LET hits == {i \in 1..Len(blocks) : blocks[i].type = BlockType.TOOL_CALL}
    IN IF hits = {} THEN blocks
       ELSE LET idx == CHOOSE i \in hits : \A j \in hits : j <= i
            IN [blocks EXCEPT ![idx] =
                   [@ EXCEPT !.result = result, !.status = ToolCallStatus.DONE]]

setResultKeepRunning(blocks, result) ==
    LET idx == findLastRunning(blocks)
    IN IF idx # 0 THEN [blocks EXCEPT ![idx] = [@ EXCEPT !.result = result]] ELSE blocks

\* blocksRef.current after case TOOL_CALL_RESULT
setToolCallResult(blocks, result) ==
    LET idx == findLastRunning(blocks)
    IN IF idx # 0
       THEN [blocks EXCEPT ![idx] =
                [@ EXCEPT !.result = result, !.status = ToolCallStatus.DONE]]
       ELSE blocks

-----------------------------------------------------------------------------
(* The render layer's notion of a block that is still open (AssistantMessage) *)

isBlockComplete(block, isLast, isStreaming) ==
    IF block.type = BlockType.TOOL_CALL THEN block.status = ToolCallStatus.DONE
    ELSE IF block.type \in {BlockType.THINKING, BlockType.TEXT}
         THEN ~isLast \/ ~isStreaming
         ELSE TRUE

isActiveUntilNextStarts(blocks, i, isStreaming) == isStreaming /\ i = Len(blocks)

\* the isActive prop AssistantMessage gives the block at position i (1-based)
isActive(blocks, i, isStreaming) ==
    LET isLastBlock == i = Len(blocks)
        isNextComplete ==
            IF i + 1 <= Len(blocks)
            THEN isBlockComplete(blocks[i + 1], i + 1 = Len(blocks), isStreaming)
            ELSE FALSE
    IN isStreaming /\ (isLastBlock \/ ~isNextComplete)

\* the isStreaming prop MessageList gives the AssistantMessage of msg
isStreamingOf(msg, loading, streamingMessageId) ==
    loading /\ msg.id = streamingMessageId

\* MessageList.allMessages: the finalized messages, then the streaming turn if shown
streamingViewShown(loading, streaming, streamingMessageId) ==
    loading /\ Len(streaming) > 0 /\ streamingMessageId # null

allMessages(msgs, streaming, loading, streamingMessageId) ==
    IF streamingViewShown(loading, streaming, streamingMessageId)
    THEN Append(msgs, [id |-> streamingMessageId, role |-> "assistant", blocks |-> streaming])
    ELSE msgs

-----------------------------------------------------------------------------
(* useSSE *)

\* eventSourceRef.current and the open sources after connect()
connectRef(ref, counter) ==
    IF Email = "" THEN ref ELSE "es-" \o ToString(counter + 1)

connectSources(open, counter) ==
    IF Email = "" THEN open ELSE open \cup {"es-" \o ToString(counter + 1)}

connectCounter(counter) ==
    IF Email = "" THEN counter ELSE counter + 1

keepSources(open, ref) == open

disconnectEverySource(open, ref) == IF ref # null THEN open \ {ref} ELSE {}

\* the open sources after disconnect(); eventSourceRef.current becomes null
disconnectSources(open, ref) ==
    IF ref # null THEN open \ {ref} ELSE open

-----------------------------------------------------------------------------

InitHook ==
    /\ messages = <<>>
    /\ streamingBlocks = <<>>
    /\ isLoading = FALSE
    /\ blocksRef = <<>>
    /\ streamingMessageIdRef = null
    /\ blockIdCounter = 0
    /\ messageIdCounter = 0
    /\ eventSourceRef = null
    /\ sources = {}
    /\ sourceCounter = 0
    /\ pendingFetch = 0
    /\ log = <<>>

Init == InitHook /\ limit = MaxOps

\* one more operation is applied, and recorded
Record(op) ==
    /\ Len(log) < limit
    /\ log' = Append(log, op)
    /\ UNCHANGED limit

\* a frame reaches handleSSEMessage through the onmessage of an open EventSource
Receive(event) ==
    /\ sources # {}
    /\ Record(event)

hookUnchanged == UNCHANGED <<eventSourceRef, sources, sourceCounter, pendingFetch>>

OnThinkingMergesEarlier(content) ==
    /\ Receive([type |-> SSEEventType.THINKING, content |-> content])
    /\ LET hits == {i \in 1..Len(blocksRef) : blocksRef[i].type = BlockType.THINKING}
       IN IF hits # {}
          THEN LET idx == CHOOSE i \in hits : \A j \in hits : j <= i
               IN /\ blocksRef' = [blocksRef EXCEPT ![idx] = appendContent(@, content)]
                  /\ UNCHANGED blockIdCounter
          ELSE /\ blocksRef' = addBlock(blocksRef, blockIdCounter,
                                        [type |-> BlockType.THINKING, content |-> content])
               /\ blockIdCounter' = blockIdCounter + 1
    /\ streamingBlocks' = blocksRef'
    /\ UNCHANGED <<messages, isLoading, streamingMessageIdRef, messageIdCounter>>
    /\ UNCHANGED <<eventSourceRef, sources, sourceCounter, pendingFetch>>

\* case SSEEventType.THINKING
OnThinking(content) ==
    /\ Receive([type |-> SSEEventType.THINKING, content |-> content])
    /\ IF getLastBlock(blocksRef).type = BlockType.THINKING
       THEN /\ blocksRef' = updateLastBlock(blocksRef, content)
            /\ UNCHANGED blockIdCounter
       ELSE /\ blocksRef' = addBlock(blocksRef, blockIdCounter,
                                     [type |-> BlockType.THINKING, content |-> content])
            /\ blockIdCounter' = blockIdCounter + 1
    /\ streamingBlocks' = blocksRef'
    /\ UNCHANGED <<messages, isLoading, streamingMessageIdRef, messageIdCounter>>
    /\ hookUnchanged

\* case SSEEventType.TEXT
OnText(content) ==
    /\ Receive([type |-> SSEEventType.TEXT, content |-> content])
    /\ IF getLastBlock(blocksRef).type = BlockType.TEXT
       THEN /\ blocksRef' = updateLastBlock(blocksRef, content)
            /\ UNCHANGED blockIdCounter
       ELSE /\ blocksRef' = addBlock(blocksRef, blockIdCounter,
                                     [type |-> BlockType.TEXT, content |-> content])
            /\ blockIdCounter' = blockIdCounter + 1
    /\ streamingBlocks' = blocksRef'
    /\ UNCHANGED <<messages, isLoading, streamingMessageIdRef, messageIdCounter>>
    /\ hookUnchanged

\* case SSEEventType.TOOL_CALL_START
OnToolCallStart(name, args) ==
    /\ Receive([type |-> SSEEventType.TOOL_CALL_START, name |-> name, args |-> args])
    /\ blocksRef' = addBlock(blocksRef, blockIdCounter,
                             [type |-> BlockType.TOOL_CALL, name |-> name, args |-> args,
                              result |-> null, status |-> ToolCallStatus.RUNNING])
    /\ blockIdCounter' = blockIdCounter + 1
    /\ streamingBlocks' = blocksRef'
    /\ UNCHANGED <<messages, isLoading, streamingMessageIdRef, messageIdCounter>>
    /\ hookUnchanged

OnToolCallResultNoPublish(result) ==
    /\ Receive([type |-> SSEEventType.TOOL_CALL_RESULT, result |-> result])
    /\ blocksRef' = setToolCallResult(blocksRef, result)
    /\ UNCHANGED <<messages, isLoading, streamingMessageIdRef, messageIdCounter,
                   blockIdCounter, streamingBlocks>>
    /\ hookUnchanged

\* case SSEEventType.TOOL_CALL_RESULT: updateBlocks() runs only when a block was found
OnToolCallResult(result) ==
    /\ Receive([type |-> SSEEventType.TOOL_CALL_RESULT, result |-> result])
    /\ blocksRef' = setToolCallResult(blocksRef, result)
    /\ streamingBlocks' = IF findLastRunning(blocksRef) # 0 THEN blocksRef' ELSE streamingBlocks
    /\ UNCHANGED <<messages, isLoading, streamingMessageIdRef, messageIdCounter,
                   blockIdCounter>>
    /\ hookUnchanged

\* case SSEEventType.PLOTLY
OnPlotly(json) ==
    /\ Receive([type |-> SSEEventType.PLOTLY, json |-> json])
    /\ blocksRef' = addBlock(markLastToolCallDone(blocksRef), blockIdCounter,
                             [type |-> BlockType.PLOTLY, json |-> json])
    /\ blockIdCounter' = blockIdCounter + 1
    /\ streamingBlocks' = blocksRef'
    /\ UNCHANGED <<messages, isLoading, streamingMessageIdRef, messageIdCounter>>
    /\ hookUnchanged

\* case SSEEventType.DATA_TABLE
OnDataTable(json) ==
    /\ Receive([type |-> SSEEventType.DATA_TABLE, json |-> json])
    /\ blocksRef' = addBlock(markLastToolCallDone(blocksRef), blockIdCounter,
                             [type |-> BlockType.DATA_TABLE, json |-> json])
    /\ blockIdCounter' = blockIdCounter + 1
    /\ streamingBlocks' = blocksRef'
    /\ UNCHANGED <<messages, isLoading, streamingMessageIdRef, messageIdCounter>>
    /\ hookUnchanged

finalBlocksWithoutLast(blocks) == SubSeq(blocks, 1, Len(blocks) - 1)

\* the blocks a terminal event copies into the finalized message
finalBlocksOf(blocks) == blocks

commitOverLastMessage(msgs, ref, counter, finalBlocks) ==
    SubSeq(msgs, 1, Len(msgs) - 1)
        \o <<[id |-> IF ref # null THEN ref ELSE nextMessageId(counter),
              role |-> "assistant", blocks |-> finalBlocks]>>

commitUnderLastId(msgs, ref, counter, finalBlocks) ==
    Append(msgs, [id |-> IF ref # null THEN ref ELSE nextMessageId(counter - 1),
                  role |-> "assistant", blocks |-> finalBlocks])

\* messages after the commit of finalBlocks under the pre-assigned id, or a fresh one
commitMessage(msgs, ref, counter, finalBlocks) ==
    Append(msgs, [id |-> IF ref # null THEN ref ELSE nextMessageId(counter),
                  role |-> "assistant", blocks |-> finalBlocks])

OnDoneKeepsSnapshot ==
    /\ Receive([type |-> SSEEventType.DONE])
    /\ LET finalBlocks == finalBlocksOf(blocksRef)
       IN IF Len(finalBlocks) > 0
          THEN /\ messages' = commitMessage(messages, streamingMessageIdRef,
                                            messageIdCounter, finalBlocks)
               /\ messageIdCounter' = IF streamingMessageIdRef # null
                                      THEN messageIdCounter ELSE messageIdCounter + 1
          ELSE UNCHANGED <<messages, messageIdCounter>>
    /\ blocksRef' = <<>>
    /\ isLoading' = FALSE
    /\ streamingMessageIdRef' = null
    /\ UNCHANGED <<blockIdCounter, streamingBlocks>>
    /\ hookUnchanged

OnDoneAlwaysCommits ==
    /\ Receive([type |-> SSEEventType.DONE])
    /\ messages' = commitMessage(messages, streamingMessageIdRef, messageIdCounter,
                                 finalBlocksOf(blocksRef))
    /\ messageIdCounter' = IF streamingMessageIdRef # null
                           THEN messageIdCounter ELSE messageIdCounter + 1
    /\ blocksRef' = <<>>
    /\ streamingBlocks' = <<>>
    /\ isLoading' = FALSE
    /\ streamingMessageIdRef' = null
    /\ UNCHANGED blockIdCounter
    /\ hookUnchanged

\* case SSEEventType.DONE
OnDone ==
    /\ Receive([type |-> SSEEventType.DONE])
    /\ LET finalBlocks == finalBlocksOf(blocksRef)
       IN IF Len(finalBlocks) > 0
          THEN /\ messages' = commitMessage(messages, streamingMessageIdRef,
                                            messageIdCounter, finalBlocks)
               /\ messageIdCounter' = IF streamingMessageIdRef # null
                                      THEN messageIdCounter ELSE messageIdCounter + 1
          ELSE UNCHANGED <<messages, messageIdCounter>>
    /\ blocksRef' = <<>>
    /\ streamingBlocks' = <<>>
    /\ isLoading' = FALSE
    /\ streamingMessageIdRef' = null
    /\ UNCHANGED blockIdCounter
    /\ hookUnchanged

\* case SSEEventType.ERROR
OnError(message) ==
    /\ Receive([type |-> SSEEventType.ERROR, message |-> message])
    /\ LET finalBlocks == finalBlocksOf(addBlock(blocksRef, blockIdCounter,
                              [type |-> BlockType.ERROR, message |-> message]))
       IN /\ messages' = commitMessage(messages, streamingMessageIdRef,
                                       messageIdCounter, finalBlocks)
          /\ messageIdCounter' = IF streamingMessageIdRef # null
                                 THEN messageIdCounter ELSE messageIdCounter + 1
    /\ blockIdCounter' = blockIdCounter + 1
    /\ blocksRef' = <<>>
    /\ streamingBlocks' = <<>>
    /\ isLoading' = FALSE
    /\ streamingMessageIdRef' = null
    /\ hookUnchanged

\* where a frame ends: the catch of onmessage, the early return of the handler, the
\* case of its type, or past the switch when no case matches
caseOf(frame) ==
    IF ~frame.decodable THEN "catch"
    ELSE IF frame.type = null THEN "return"
    ELSE IF frame.type \in {SSEEventType[k] : k \in DOMAIN SSEEventType} THEN frame.type
    ELSE "none"

OnOtherFrameEndsTurn(frame) ==
    /\ Receive(frame)
    /\ caseOf(frame) \in {"catch", "return", "none"}
    /\ isLoading' = FALSE
    /\ UNCHANGED <<messages, streamingBlocks, blocksRef, streamingMessageIdRef,
                   blockIdCounter, messageIdCounter>>
    /\ hookUnchanged

\* onmessage for a frame that JSON.parse rejects, or that no case of the switch takes
OnOtherFrame(frame) ==
    /\ Receive(frame)
    /\ caseOf(frame) \in {"catch", "return", "none"}
    /\ UNCHANGED <<messages, streamingBlocks, isLoading, blocksRef, streamingMessageIdRef,
                   blockIdCounter, messageIdCounter>>
    /\ hookUnchanged

-----------------------------------------------------------------------------
(* sendMessage, its awaited request, clearMessages, and the source's onerror *)

sendMessageWhileLoading(text) ==
    /\ ~(Trim(text) = <<>> \/ Email = "")
    /\ Record([type |-> "sendMessage", text |-> text])
    /\ messages' = Append(messages, [id |-> nextMessageId(messageIdCounter),
                                     role |-> "user", content |-> Trim(text)])
    /\ isLoading' = TRUE
    /\ blocksRef' = <<>>
    /\ streamingBlocks' = <<>>
    /\ streamingMessageIdRef' = nextMessageId(messageIdCounter + 1)
    /\ messageIdCounter' = messageIdCounter + 2
    /\ eventSourceRef' = connectRef(eventSourceRef, sourceCounter)
    /\ sources' = connectSources(sources, sourceCounter)
    /\ sourceCounter' = connectCounter(sourceCounter)
    /\ pendingFetch' = pendingFetch + 1
    /\ UNCHANGED blockIdCounter

\* sendMessage(text) when it returns at its first line
sendMessageIgnored(text) ==
    /\ Trim(text) = <<>> \/ isLoading \/ Email = ""
    /\ Record([type |-> "sendMessageIgnored", text |-> text])
    /\ UNCHANGED <<messages, streamingBlocks, isLoading, blocksRef, streamingMessageIdRef,
                   blockIdCounter, messageIdCounter, eventSourceRef, sources, sourceCounter,
                   pendingFetch>>

\* sendMessage(text) up to the await of fetch
sendMessage(text) ==
    /\ ~(Trim(text) = <<>> \/ isLoading \/ Email = "")
    /\ Record([type |-> "sendMessage", text |-> text])
    /\ messages' = Append(messages, [id |-> nextMessageId(messageIdCounter),
                                     role |-> "user", content |-> Trim(text)])
    /\ isLoading' = TRUE
    /\ blocksRef' = <<>>
    /\ streamingBlocks' = <<>>
    /\ streamingMessageIdRef' = nextMessageId(messageIdCounter + 1)
    /\ messageIdCounter' = messageIdCounter + 2
    /\ eventSourceRef' = connectRef(eventSourceRef, sourceCounter)
    /\ sources' = connectSources(sources, sourceCounter)
    /\ sourceCounter' = connectCounter(sourceCounter)
    /\ pendingFetch' = pendingFetch + 1
    /\ UNCHANGED blockIdCounter

\* the awaited fetch resolves with res.ok
FetchAccepted ==
    /\ pendingFetch > 0
    /\ Record([type |-> "fetchAccepted"])
    /\ pendingFetch' = pendingFetch - 1
    /\ UNCHANGED <<messages, streamingBlocks, isLoading, blocksRef, streamingMessageIdRef,
                   blockIdCounter, messageIdCounter, eventSourceRef, sources, sourceCounter>>

FetchRejectedKeepsId ==
    /\ pendingFetch > 0
    /\ Record([type |-> "fetchRejected"])
    /\ pendingFetch' = pendingFetch - 1
    /\ messages' = Append(messages,
            [id |-> nextMessageId(messageIdCounter), role |-> "assistant",
             blocks |-> <<[id |-> nextBlockId(blockIdCounter), type |-> BlockType.ERROR,
                           message |-> "Erreur de connexion au serveur."]>>])
    /\ messageIdCounter' = messageIdCounter + 1
    /\ blockIdCounter' = blockIdCounter + 1
    /\ isLoading' = FALSE
    /\ sources' = disconnectSources(sources, eventSourceRef)
    /\ eventSourceRef' = null
    /\ UNCHANGED <<streamingBlocks, blocksRef, sourceCounter, streamingMessageIdRef>>

\* the awaited fetch rejects or answers non-2xx: the catch block of sendMessage
FetchRejected ==
    /\ pendingFetch > 0
    /\ Record([type |-> "fetchRejected"])
    /\ pendingFetch' = pendingFetch - 1
    /\ messages' = Append(messages,
            [id |-> nextMessageId(messageIdCounter), role |-> "assistant",
             blocks |-> <<[id |-> nextBlockId(blockIdCounter), type |-> BlockType.ERROR,
                           message |-> "Erreur de connexion au serveur."]>>])
    /\ messageIdCounter' = messageIdCounter + 1
    /\ blockIdCounter' = blockIdCounter + 1
    /\ streamingMessageIdRef' = null
    /\ isLoading' = FALSE
    /\ sources' = disconnectSources(sources, eventSourceRef)
    /\ eventSourceRef' = null
    /\ UNCHANGED <<streamingBlocks, blocksRef, sourceCounter>>

clearMessagesKeepsBlocks ==
    /\ Record([type |-> "clearMessages"])
    /\ messages' = <<>>
    /\ streamingBlocks' = <<>>
    /\ streamingMessageIdRef' = null
    /\ isLoading' = FALSE
    /\ sources' = disconnectSources(sources, eventSourceRef)
    /\ eventSourceRef' = null
    /\ UNCHANGED <<blockIdCounter, messageIdCounter, sourceCounter, pendingFetch, blocksRef>>

\* clearMessages()
clearMessages ==
    /\ Record([type |-> "clearMessages"])
    /\ messages' = <<>>
    /\ streamingBlocks' = <<>>
    /\ blocksRef' = <<>>
    /\ streamingMessageIdRef' = null
    /\ isLoading' = FALSE
    /\ sources' = disconnectSources(sources, eventSourceRef)
    /\ eventSourceRef' = null
    /\ UNCHANGED <<blockIdCounter, messageIdCounter, sourceCounter, pendingFetch>>

\* eventSource.onerror of the source s: it closes s and leaves eventSourceRef alone
OnSourceError(s) ==
    /\ s \in sources
    /\ Record([type |-> "sourceError", source |-> s])
    /\ sources' = sources \ {s}
    /\ UNCHANGED <<messages, streamingBlocks, isLoading, blocksRef, streamingMessageIdRef,
                   blockIdCounter, messageIdCounter, eventSourceRef, sourceCounter,
                   pendingFetch>>

-----------------------------------------------------------------------------

Next ==
    \/ \E text \in Texts : sendMessage(text)
    \/ FetchAccepted
    \/ FetchRejected
    \/ clearMessages
    \/ \E s \in sources : OnSourceError(s)
    \/ \E content \in Contents : OnThinking(content)
    \/ \E content \in Contents : OnText(content)
    \/ \E name \in ToolNames, args \in ToolArgs : OnToolCallStart(name, args)
    \/ \E result \in ToolResults : OnToolCallResult(result)
    \/ \E json \in Jsons : OnPlotly(json)
    \/ \E json \in Jsons : OnDataTable(json)
    \/ OnDone
    \/ \E message \in ErrorMessages : OnError(message)
    \/ \E frame \in OtherFrames : OnOtherFrame(frame)

Spec == Init /\ [][Next]_vars

\* the promise of the awaited fetch settles: it resolves or it rejects
FetchSettles == FetchAccepted \/ FetchRejected

SpecLive == Init /\ [][Next]_vars /\ WF_vars(FetchSettles)

\* The hook fed with the events of scenario A, in any order and number
InitA == InitHook /\ limit = MaxOpsA

NextA ==
    \/ \E text \in Texts : sendMessage(text)
    \/ \E content \in ThinkingA : OnThinking(content)
    \/ OnText(AnswerA)
    \/ \E name \in ToolNames, args \in ToolArgs : OnToolCallStart(name, args)
    \/ \E result \in ToolResults : OnToolCallResult(result)
    \/ OnDone

SpecA == InitA /\ [][NextA]_vars

\* The hook fed by the server: a frame published for the conversation reaches, in
\* turn, the onmessage of every EventSource that is open for it
foldThinking(blocks, counter, content) ==
    IF getLastBlock(blocks).type = BlockType.THINKING
    THEN updateLastBlock(blocks, content)
    ELSE addBlock(blocks, counter, [type |-> BlockType.THINKING, content |-> content])

RECURSIVE deliverThinking(_, _, _, _)
deliverThinking(blocks, counter, content, k) ==
    IF k = 0 THEN blocks
    ELSE deliverThinking(foldThinking(blocks, counter, content),
                         IF getLastBlock(blocks).type = BlockType.THINKING
                         THEN counter ELSE counter + 1,
                         content, k - 1)

PushThinking(content) ==
    /\ sources # {}
    /\ Record([type |-> "pushThinking", content |-> content])
    /\ blocksRef' = deliverThinking(blocksRef, blockIdCounter, content, Cardinality(sources))
    /\ blockIdCounter' = IF getLastBlock(blocksRef).type = BlockType.THINKING
                         THEN blockIdCounter ELSE blockIdCounter + 1
    /\ streamingBlocks' = blocksRef'
    /\ UNCHANGED <<messages, isLoading, streamingMessageIdRef, messageIdCounter>>
    /\ hookUnchanged

InitP == InitHook /\ limit = MaxOpsP

\* a done frame delivered more than once acts once: the later deliveries find no block
NextP ==
    \/ \E text \in Texts : sendMessage(text)
    \/ FetchAccepted
    \/ FetchRejected
    \/ clearMessages
    \/ \E content \in Contents : PushThinking(content)
    \/ OnDone

SpecP == InitP /\ [][NextP]_vars

\* The hook with every call of sendMessage, also those that return at once
InitS == InitHook /\ limit = MaxOpsS

NextS ==
    \/ \E text \in Texts : sendMessage(text)
    \/ \E text \in Texts : sendMessageIgnored(text)
    \/ FetchAccepted
    \/ FetchRejected
    \/ clearMessages
    \/ \E content \in Contents : OnThinking(content)
    \/ OnDone
    \/ \E message \in ErrorMessages : OnError(message)

SpecS == InitS /\ [][NextS]_vars

-----------------------------------------------------------------------------
(* Vocabulary of the properties *)

\* the positions of the blocks of a sequence that are still open
openBlocks(blocks, isStreaming) ==
    {i \in 1..Len(blocks) : ~isBlockComplete(blocks[i], i = Len(blocks), isStreaming)}

LastOp(l) == l[Len(l)]

\* the operation the step applies is an event of one of the given types
Handled(types) == LastOp(log').type \in types

ChunkTypes == {SSEEventType.THINKING, SSEEventType.TEXT}

\* the last n operations of the log
Suffix(l, n) == SubSeq(l, Len(l) - n + 1, Len(l))

IsSend(op) == op.type = "sendMessage"

-----------------------------------------------------------------------------
(* C1: after every prefix of every event sequence at most one block of the *)
(* streaming sequence is open (a running tool call, or the thinking/text   *)
(* block that still receives chunks).                                      *)
C1_SingleOpen == Cardinality(openBlocks(blocksRef, TRUE)) <= 1

(* C2: a finalized assistant message contains no open block: a tool call   *)
(* that never received its result is committed with status done.           *)
C2_NoOpenBlockCommitted ==
    \A i \in 1..Len(messages) :
        messages[i].role = "assistant" => openBlocks(messages[i].blocks, FALSE) = {}

(* C3: a content chunk that directly follows a chunk of the same kind is   *)
(* appended to the same block: the sequence keeps its length, the block    *)
(* keeps its id, its content becomes the old content followed by the       *)
(* chunk; chunks a then b at the start of a turn give one block "ab".      *)
C3_Coalescing ==
    [][Handled(ChunkTypes) /\ Len(log) > 0 /\ LastOp(log).type = LastOp(log').type
       => LET n == Len(blocksRef)
          IN /\ n > 0
             /\ Len(blocksRef') = n
             /\ SubSeq(blocksRef', 1, n - 1) = SubSeq(blocksRef, 1, n - 1)
             /\ blocksRef'[n].id = blocksRef[n].id
             /\ blocksRef'[n].type = LastOp(log').type
             /\ blocksRef'[n].content = blocksRef[n].content \o LastOp(log').content
             /\ (Len(log) > 1 /\ IsSend(log[Len(log) - 1])
                 => /\ n = 1
                    /\ blocksRef'[1].content =
                           LastOp(log).content \o LastOp(log').content)
      ]_vars

C3_Witness ==
    /\ Len(log) >= 3
    /\ IsSend(log[Len(log) - 2])
    /\ log[Len(log) - 1] = [type |-> SSEEventType.THINKING, content |-> "a"]
    /\ log[Len(log)] = [type |-> SSEEventType.THINKING, content |-> "b"]
    /\ Len(blocksRef) = 1
    /\ blocksRef[1].content = "ab"

(* C4: a thinking chunk followed by a tool_call_start, at the start of a   *)
(* turn, gives exactly two blocks: the thinking block with the chunk's     *)
(* text, closed, then a running tool call with the event's name and        *)
(* arguments and no result.                                                *)
C4_ThinkingThenToolCall ==
    Len(log) >= 3 /\ IsSend(log[Len(log) - 2])
    /\ log[Len(log) - 1].type = SSEEventType.THINKING
    /\ log[Len(log)].type = SSEEventType.TOOL_CALL_START
    => /\ Len(blocksRef) = 2
       /\ blocksRef[1].type = BlockType.THINKING
       /\ blocksRef[1].content = log[Len(log) - 1].content
       /\ blocksRef[2].type = BlockType.TOOL_CALL
       /\ blocksRef[2].name = log[Len(log)].name
       /\ blocksRef[2].args = log[Len(log)].args
       /\ blocksRef[2].result = null
       /\ blocksRef[2].status = ToolCallStatus.RUNNING
       /\ blocksRef[1].id # blocksRef[2].id
       /\ openBlocks(blocksRef, TRUE) = {2}
       /\ streamingBlocks = blocksRef

C4_Witness ==
    /\ Len(log) >= 3 /\ IsSend(log[Len(log) - 2])
    /\ log[Len(log) - 1].type = SSEEventType.THINKING
    /\ log[Len(log)].type = SSEEventType.TOOL_CALL_START
    /\ Len(blocksRef) = 2
    /\ blocksRef[2].status = ToolCallStatus.RUNNING

(* C5: an event that starts a new open block (thinking, text or            *)
(* tool_call_start appending a block) leaves no earlier tool call running  *)
(* once the new block is appended.                                         *)
C5_NewOpenClosesPrior ==
    [][Handled(ChunkTypes \cup {SSEEventType.TOOL_CALL_START})
       /\ Len(blocksRef') = Len(blocksRef) + 1
       => \A i \in 1..Len(blocksRef) : ~isRunningToolCall(blocksRef'[i])
      ]_vars

(* C6: a tool_call_result received when no tool call is running leaves    *)
(* the streaming sequence as it was, the accumulator and the published     *)
(* snapshot alike.                                                         *)
C6_DanglingResultDropped ==
    [][Handled({SSEEventType.TOOL_CALL_RESULT}) /\ findLastRunning(blocksRef) = 0
       => blocksRef' = blocksRef /\ streamingBlocks' = streamingBlocks
      ]_vars

C6_Witness ==
    /\ Len(log) > 0
    /\ LastOp(log).type = SSEEventType.TOOL_CALL_RESULT
    /\ \E i \in 1..Len(blocksRef) : blocksRef[i].type = BlockType.TOOL_CALL
    /\ \A i \in 1..Len(blocksRef) :
           blocksRef[i].type = BlockType.TOOL_CALL
           => blocksRef[i].status = ToolCallStatus.DONE /\ blocksRef[i].result = null

(* C7: no event other than the terminal ones changes a block at a position *)
(* before the last one: it appends at the end or changes the last block.   *)
C7_OnlyLastBlockMutated ==
    [][Handled({SSEEventType.THINKING, SSEEventType.TEXT, SSEEventType.TOOL_CALL_START,
                SSEEventType.TOOL_CALL_RESULT, SSEEventType.PLOTLY,
                SSEEventType.DATA_TABLE})
       => /\ Len(blocksRef') >= Len(blocksRef)
          /\ \A i \in 1..(Len(blocksRef) - 1) : blocksRef'[i] = blocksRef[i]
      ]_vars

(* C8: a tool_call_result received while a tool call is running puts the   *)
(* event's result into that block and sets its status to done; the block   *)
(* keeps its id, name and arguments, and no other block changes.           *)
C8_ResultClosesToolCall ==
    [][Handled({SSEEventType.TOOL_CALL_RESULT}) /\ findLastRunning(blocksRef) # 0
       => LET idx == findLastRunning(blocksRef)
          IN /\ Len(blocksRef') = Len(blocksRef)
             /\ blocksRef'[idx].result = LastOp(log').result
             /\ blocksRef'[idx].status = ToolCallStatus.DONE
             /\ blocksRef'[idx].id = blocksRef[idx].id
             /\ blocksRef'[idx].name = blocksRef[idx].name
             /\ blocksRef'[idx].args = blocksRef[idx].args
             /\ blocksRef'[idx].type = BlockType.TOOL_CALL
             /\ \A i \in 1..Len(blocksRef) : i # idx => blocksRef'[i] = blocksRef[i]
             /\ streamingBlocks' = blocksRef'
      ]_vars

C8_Witness ==
    /\ Len(log) > 0
    /\ LastOp(log).type = SSEEventType.TOOL_CALL_RESULT
    /\ \E i \in 1..Len(blocksRef) :
           /\ blocksRef[i].type = BlockType.TOOL_CALL
           /\ blocksRef[i].status = ToolCallStatus.DONE
           /\ blocksRef[i].result = LastOp(log).result

(* C9: a plotly or data_table event appends a chart/table block, already   *)
(* closed, as the last block, and closes the latest open block: the last   *)
(* running tool call becomes done and keeps result null, and when at most  *)
(* one block was open none is open afterwards; tool_call_start, plotly,    *)
(* done at the start of a turn commits [tool call (done, null), chart].    *)
C9_ChartClosesPrior ==
    [][/\ Handled({SSEEventType.PLOTLY, SSEEventType.DATA_TABLE})
          => LET n == Len(blocksRef)
                 idx == findLastRunning(blocksRef)
             IN /\ Len(blocksRef') = n + 1
                /\ blocksRef'[n + 1].type = LastOp(log').type
                /\ blocksRef'[n + 1].json = LastOp(log').json
                /\ isBlockComplete(blocksRef'[n + 1], TRUE, TRUE)
                /\ \A i \in 1..n : i # idx => blocksRef'[i] = blocksRef[i]
                /\ idx # 0 => /\ blocksRef'[idx] =
                                     [blocksRef[idx] EXCEPT !.status = ToolCallStatus.DONE]
                              /\ blocksRef'[idx].result = null
                /\ Cardinality(openBlocks(blocksRef, TRUE)) <= 1
                       => openBlocks(blocksRef', TRUE) = {}
                /\ streamingBlocks' = blocksRef'
       /\ Len(log') >= 4 /\ IsSend(log'[Len(log') - 3])
          /\ log'[Len(log') - 2].type = SSEEventType.TOOL_CALL_START
          /\ log'[Len(log') - 1].type = SSEEventType.PLOTLY
          /\ log'[Len(log')].type = SSEEventType.DONE
          => LET final == messages'[Len(messages')]
             IN /\ Len(messages') = Len(messages) + 1
                /\ final.role = "assistant"
                /\ Len(final.blocks) = 2
                /\ final.blocks[1].type = BlockType.TOOL_CALL
                /\ final.blocks[1].name = log'[Len(log') - 2].name
                /\ final.blocks[1].status = ToolCallStatus.DONE
                /\ final.blocks[1].result = null
                /\ final.blocks[2].type = BlockType.PLOTLY
                /\ final.blocks[2].json = log'[Len(log') - 1].json
                /\ blocksRef' = <<>>
      ]_vars

C9_Witness ==
    /\ Len(log) >= 4
    /\ Suffix(log, 3)[1].type = SSEEventType.TOOL_CALL_START
    /\ Suffix(log, 3)[2].type = SSEEventType.PLOTLY
    /\ Suffix(log, 3)[3].type = SSEEventType.DONE
    /\ IsSend(log[Len(log) - 3])
    /\ Len(messages) > 0
    /\ messages[Len(messages)].role = "assistant"
    /\ Len(messages[Len(messages)].blocks) = 2
    /\ messages[Len(messages)].blocks[1].status = ToolCallStatus.DONE

(* C10: a turn fed thinking "Let me check ", thinking "the data.",         *)
(* tool_call_start(query_data, {sql: "SELECT 1"}), tool_call_result("1"),  *)
(* text "The value is 1.", done ends with exactly one assistant message,   *)
(* of exactly three closed blocks: the thinking block "Let me check the    *)
(* data.", the tool call query_data with result "1", the text block.       *)
C10_ScenarioA ==
    Len(log) = 1 + Len(ScenarioA) /\ IsSend(log[1]) /\ Suffix(log, Len(ScenarioA)) = ScenarioA
    => /\ Len(messages) = 2
       /\ messages[1].role = "user"
       /\ messages[2].role = "assistant"
       /\ LET blocks == messages[2].blocks
          IN /\ Len(blocks) = 3
             /\ blocks[1].type = BlockType.THINKING
             /\ blocks[1].content = "Let me check the data."
             /\ blocks[2].type = BlockType.TOOL_CALL
             /\ blocks[2].name = "query_data"
             /\ blocks[2].args = [sql |-> "SELECT 1"]
             /\ blocks[2].result = "1"
             /\ blocks[2].status = ToolCallStatus.DONE
             /\ blocks[3].type = BlockType.TEXT
             /\ blocks[3].content = "The value is 1."
             /\ Cardinality({blocks[i].id : i \in 1..3}) = 3
             /\ openBlocks(blocks, FALSE) = {}
       /\ blocksRef = <<>>
       /\ streamingBlocks = <<>>

C10_Witness ==
    /\ Len(log) = 1 + Len(ScenarioA)
    /\ IsSend(log[1])
    /\ Suffix(log, Len(ScenarioA)) = ScenarioA
    /\ Len(messages) = 2
    /\ Len(messages[2].blocks) = 3

-----------------------------------------------------------------------------
(* Vocabulary of the turn-level properties *)

IsFrame(op) ==
    "decodable" \in DOMAIN op \/ op.type \in {SSEEventType[k] : k \in DOMAIN SSEEventType}

LastMessage(msgs) == msgs[Len(msgs)]

\* the step appends exactly one message, an assistant message
AppendsAssistantMessage ==
    /\ Len(messages') = Len(messages) + 1
    /\ SubSeq(messages', 1, Len(messages)) = messages
    /\ LastMessage(messages').role = "assistant"

\* the step commits the accumulated blocks followed by one error block
CommitsWithErrorBlock ==
    /\ AppendsAssistantMessage
    /\ LET blocks == LastMessage(messages').blocks
           n == Len(blocksRef)
       IN /\ Len(blocks) = n + 1
          /\ SubSeq(blocks, 1, n) = blocksRef
          /\ blocks[n + 1].type = BlockType.ERROR
          /\ \A i \in 1..n : blocks[i].id # blocks[n + 1].id

\* disconnect() has run and connect() has not run since
DisconnectedSince(l) ==
    \E i \in 1..Len(l) :
        /\ l[i].type \in {"clearMessages", "fetchRejected"}
        /\ \A j \in (i + 1)..Len(l) : l[j].type # "sendMessage"

(* C11: an error event with message m appends one assistant message whose  *)
(* blocks are the accumulated blocks, in order, followed by one error      *)
(* block with message m; with nothing accumulated it is that block alone.  *)
C11_ErrorCommitsBlocksThenError ==
    [][Handled({SSEEventType.ERROR})
       => /\ CommitsWithErrorBlock
          /\ LET blocks == LastMessage(messages').blocks
             IN /\ blocks[Len(blocks)].message = LastOp(log').message
                /\ blocksRef = <<>> => Len(blocks) = 1
      ]_vars

C11_Witness ==
    /\ Len(log) >= 2
    /\ LastOp(log).type = SSEEventType.ERROR
    /\ log[Len(log) - 1].type = SSEEventType.THINKING
    /\ Len(messages) > 0
    /\ LastMessage(messages).role = "assistant"
    /\ Len(LastMessage(messages).blocks) = 2
    /\ LastMessage(messages).blocks[1].type = BlockType.THINKING
    /\ LastMessage(messages).blocks[2].message = LastOp(log).message

(* C12: once a done or error event has been handled, blocksRef and         *)
(* streamingBlocks are empty and isLoading is false.                       *)
C12_TerminalResetsStreaming ==
    Len(log) > 0 /\ LastOp(log).type \in {SSEEventType.DONE, SSEEventType.ERROR}
    => blocksRef = <<>> /\ streamingBlocks = <<>> /\ ~isLoading

C12_Witness ==
    /\ Len(log) >= 3
    /\ IsSend(log[Len(log) - 2])
    /\ log[Len(log) - 1].type = SSEEventType.TEXT
    /\ LastOp(log).type = SSEEventType.DONE
    /\ streamingBlocks = <<>>
    /\ ~isLoading

(* C13: when a step turns the turn shown as streaming into a finalized     *)
(* assistant message, that message carries the id the streaming view       *)
(* carried, the one pre-assigned by sendMessage.                           *)
C13_FinalizedKeepsPreassignedId ==
    [][streamingViewShown(isLoading, streamingBlocks, streamingMessageIdRef)
       /\ Len(messages') > Len(messages)
       /\ LastMessage(messages').role = "assistant"
       => LastMessage(messages').id = streamingMessageIdRef
      ]_vars

(* C14: a turn that has failed (error event, rejected request, or the      *)
(* connection lost while loading) reaches a state where isLoading is false *)
(* and the last message ends with an error block.                          *)
TurnFailed ==
    /\ Len(log) > 0
    /\ \/ LastOp(log).type \in {SSEEventType.ERROR, "fetchRejected"}
       \/ LastOp(log).type = "sourceError" /\ isLoading /\ sources = {}

EndedWithError ==
    /\ ~isLoading
    /\ Len(messages) > 0
    /\ LastMessage(messages).role = "assistant"
    /\ LET blocks == LastMessage(messages).blocks
       IN blocks[Len(blocks)].type = BlockType.ERROR

C14_FailedTurnStopsLoading == TurnFailed ~> (EndedWithError \/ Len(log) = limit)

(* C15: when the connection of the turn in flight fails, the turn is       *)
(* committed as for an error event: the accumulated blocks followed by one *)
(* error block, and the streaming sequence cleared.                        *)
C15_TransportFailureCommits ==
    [][LastOp(log').type = "sourceError" /\ isLoading
       /\ LastOp(log').source = eventSourceRef
       => CommitsWithErrorBlock /\ blocksRef' = <<>> /\ streamingBlocks' = <<>>
      ]_vars

(* C16: when the turn-start request is rejected, exactly one assistant     *)
(* message of exactly one error block is appended, isLoading becomes       *)
(* false, and the hook's current EventSource is closed and forgotten.      *)
C16_RejectionCommitsError ==
    [][LastOp(log').type = "fetchRejected"
       => /\ AppendsAssistantMessage
          /\ LET blocks == LastMessage(messages').blocks
             IN /\ Len(blocks) = 1
                /\ blocks[1].type = BlockType.ERROR
                /\ isBlockComplete(blocks[1], TRUE, FALSE)
          /\ ~isLoading'
          /\ eventSourceRef \notin sources'
          /\ eventSourceRef' = null
      ]_vars

C16_Witness ==
    /\ Len(log) >= 2
    /\ IsSend(log[Len(log) - 1])
    /\ LastOp(log).type = "fetchRejected"
    /\ ~isLoading
    /\ Len(LastMessage(messages).blocks) = 1
    /\ sources = {}

(* C17: at most one EventSource of the hook is open at any time.           *)
C17_SingleConnection == Cardinality(sources) <= 1

(* C18: once disconnect() has run and until the next connect(), no frame   *)
(* reaches the message handler.                                            *)
C18_NoFrameAfterDisconnect ==
    [][DisconnectedSince(log) => ~IsFrame(LastOp(log'))]_vars

(* C19: a frame that is not JSON, has no type, or has a type outside the   *)
(* enum leaves messages, the streaming sequence and isLoading unchanged.   *)
C19_OtherFrameDropped ==
    []["decodable" \in DOMAIN LastOp(log')
       => UNCHANGED <<messages, blocksRef, streamingBlocks, isLoading>>
      ]_vars

C19_Witness ==
    /\ Len(log) >= 2
    /\ LastOp(log) = [decodable |-> TRUE, type |-> "warning", message |-> "slow"]
    /\ log[Len(log) - 1].type = SSEEventType.THINKING
    /\ isLoading
    /\ Len(streamingBlocks) = 1

(* C20: every step, other than the reset, that takes a turn with           *)
(* accumulated blocks out of the loading state appends an assistant        *)
(* message that holds those blocks.                                        *)
C20_LoadingEndsThroughCommit ==
    [][isLoading /\ ~isLoading' /\ blocksRef # <<>>
       /\ LastOp(log').type # "clearMessages"
       => /\ AppendsAssistantMessage
          /\ Len(LastMessage(messages').blocks) >= Len(blocksRef)
          /\ SubSeq(LastMessage(messages').blocks, 1, Len(blocksRef)) = blocksRef
      ]_vars

-----------------------------------------------------------------------------
(* Vocabulary of the block-level properties *)

\* the ids of a sequence of blocks, in order
idsOf(blocks) == [i \in 1..Len(blocks) |-> blocks[i].id]

IsPrefix(s, t) == Len(s) <= Len(t) /\ SubSeq(t, 1, Len(s)) = s

\* the events that fold into the streaming sequence without ending the turn
NonTerminalTypes ==
    {SSEEventType.THINKING, SSEEventType.TEXT, SSEEventType.TOOL_CALL_START,
     SSEEventType.TOOL_CALL_RESULT, SSEEventType.PLOTLY, SSEEventType.DATA_TABLE}

(* C21: a warning event appends one closed warning block carrying the      *)
(* event's message to the streaming sequence, and leaves every block that  *)
(* was there, the open one included, as it was.                            *)
C21_WarningAppendsBlock ==
    [][LastOp(log').type = "warning"
       => LET n == Len(blocksRef)
          IN /\ Len(blocksRef') = n + 1
             /\ SubSeq(blocksRef', 1, n) = blocksRef
             /\ blocksRef'[n + 1].type = "warning"
             /\ blocksRef'[n + 1].message = LastOp(log').message
             /\ streamingBlocks' = blocksRef'
      ]_vars

(* C22: a retrying event is folded like a thinking chunk: its content is   *)
(* appended to the last block when that is a thinking block, and otherwise *)
(* opens a new thinking block with that content.                           *)
C22_RetryingFoldsAsThinking ==
    [][LastOp(log').type = "retrying"
       => LET n == Len(blocksRef)
              chunk == LastOp(log').content
          IN IF getLastBlock(blocksRef).type = BlockType.THINKING
             THEN /\ Len(blocksRef') = n
                  /\ blocksRef'[n].content = blocksRef[n].content \o chunk
             ELSE /\ Len(blocksRef') = n + 1
                  /\ blocksRef'[n + 1].type = BlockType.THINKING
                  /\ blocksRef'[n + 1].content = chunk
      ]_vars

(* C23: when the user stops a turn while its thinking block is streaming,  *)
(* one assistant message is appended that holds exactly that thinking      *)
(* block, closed, with the text received so far and no error block;        *)
(* isLoading becomes false and the hook's EventSource is closed. The       *)
(* hook's only operation that stops a turn in flight is clearMessages.     *)
C23_CancelCommitsPartialThinking ==
    [][/\ LastOp(log').type = "clearMessages"
       /\ isLoading
       /\ Len(blocksRef) = 1
       /\ blocksRef[1].type = BlockType.THINKING
       => /\ AppendsAssistantMessage
          /\ LastMessage(messages').blocks = blocksRef
          /\ openBlocks(LastMessage(messages').blocks, FALSE) = {}
          /\ ~isLoading'
          /\ eventSourceRef \notin sources'
          /\ eventSourceRef' = null
      ]_vars

C25_FinalizedImmutable ==
    [][LastOp(log').type # "clearMessages" => IsPrefix(messages, messages')]_vars

C25_Witness ==
    /\ Len(log) >= 4
    /\ log[Len(log) - 1].type = SSEEventType.DONE
    /\ LastOp(log).type = SSEEventType.THINKING
    /\ Len(messages) = 2
    /\ messages[2].role = "assistant"
    /\ Len(messages[2].blocks) > 0
    /\ blocksRef # <<>>

\* the step folds a frame into the streaming sequence without ending the turn
FoldsFrame == Handled(NonTerminalTypes) \/ "decodable" \in DOMAIN LastOp(log')

\* a block that no event may change any more: a tool call that is done, a chart, a
\* table or an error block, a thinking or text block that is not the last block
isSealed(blocks, i) ==
    IF blocks[i].type = BlockType.TOOL_CALL THEN blocks[i].status = ToolCallStatus.DONE
    ELSE IF blocks[i].type \in {BlockType.THINKING, BlockType.TEXT} THEN i < Len(blocks)
    ELSE TRUE

(* C26: a closed block is never mutated: once a tool call has status done  *)
(* no later event changes its result or status (a tool_call_result that    *)
(* arrives after a chart or table closed it does not fill in its result),  *)
(* and a thinking or text block that is no longer the last block never     *)
(* changes content.                                                        *)
C26_ClosedBlockFrozen ==
    [][FoldsFrame
       => \A i \in 1..Len(blocksRef) :
              isSealed(blocksRef, i)
              => i <= Len(blocksRef') /\ blocksRef'[i] = blocksRef[i]
      ]_vars

C26_Witness ==
    /\ Len(log) >= 3
    /\ log[Len(log) - 2].type = SSEEventType.TOOL_CALL_START
    /\ log[Len(log) - 1].type = SSEEventType.PLOTLY
    /\ LastOp(log).type = SSEEventType.TOOL_CALL_RESULT
    /\ Len(blocksRef) >= 2
    /\ blocksRef[Len(blocksRef) - 1].type = BlockType.TOOL_CALL
    /\ blocksRef[Len(blocksRef) - 1].status = ToolCallStatus.DONE
    /\ blocksRef[Len(blocksRef) - 1].result = null

\* every block of the conversation: those of the finalized assistant messages, in
\* order, then those of the streaming sequence
RECURSIVE blocksOfMessages(_)
blocksOfMessages(msgs) ==
    IF msgs = <<>> THEN <<>>
    ELSE (IF Head(msgs).role = "assistant" THEN Head(msgs).blocks ELSE <<>>)
             \o blocksOfMessages(Tail(msgs))

allBlocks(msgs, streaming) == blocksOfMessages(msgs) \o streaming

UniqueIds(blocks) ==
    \A i, j \in 1..Len(blocks) : i # j => blocks[i].id # blocks[j].id

(* C27: the ids of all blocks of the conversation, streaming and           *)
(* finalized, synthesized error blocks included, are pairwise distinct,    *)
(* and a block that a frame changes (more content, its result, its         *)
(* closing) keeps its id.                                                  *)
C27_BlockIdsUniqueAndStable ==
    [][/\ UniqueIds(allBlocks(messages', blocksRef'))
       /\ FoldsFrame
          => \A i \in 1..Len(blocksRef) :
                 i <= Len(blocksRef') /\ blocksRef'[i] # blocksRef[i]
                 => blocksRef'[i].id = blocksRef[i].id
      ]_vars

C27_Witness ==
    /\ Len(log) >= 3
    /\ log[Len(log) - 1].type = SSEEventType.TOOL_CALL_RESULT
    /\ LastOp(log).type = "fetchRejected"
    /\ Len(blocksRef) = 1
    /\ blocksRef[1].id = "block-1"
    /\ blocksRef[1].type = BlockType.TOOL_CALL
    /\ blocksRef[1].status = ToolCallStatus.DONE
    /\ LastMessage(messages).blocks[1].type = BlockType.ERROR
    /\ LastMessage(messages).blocks[1].id = "block-2"

(* C28: after every step that changes the accumulated block sequence (a    *)
(* handled event, sendMessage, clearMessages), the published snapshot      *)
(* streamingBlocks equals blocksRef: the snapshot never lags the           *)
(* accumulator by an event.                                                *)
C28_SnapshotFollowsAccumulator ==
    [][blocksRef' # blocksRef \/ streamingBlocks' # streamingBlocks
       => streamingBlocks' = blocksRef'
      ]_vars

C28_Witness ==
    /\ Len(log) >= 2
    /\ log[Len(log) - 1].type = SSEEventType.TOOL_CALL_START
    /\ LastOp(log).type = SSEEventType.TOOL_CALL_RESULT
    /\ Len(streamingBlocks) > 0
    /\ getLastBlock(streamingBlocks).type = BlockType.TOOL_CALL
    /\ getLastBlock(streamingBlocks).result = LastOp(log).result
    /\ getLastBlock(streamingBlocks).status = ToolCallStatus.DONE

activeBlocks(blocks, isStreaming) ==
    {i \in 1..Len(blocks) : isActive(blocks, i, isStreaming)}

\* the streaming turn is rendered before and after the step, and the step folds a frame
StreamingViewStep ==
    /\ FoldsFrame
    /\ streamingViewShown(isLoading, streamingBlocks, streamingMessageIdRef)
    /\ streamingViewShown(isLoading', streamingBlocks', streamingMessageIdRef')

(* C29: in a rendered assistant message, while it streams, a block is      *)
(* active exactly when it is the last block or its successor is still      *)
(* open; when it does not stream no block is active. So a block stays      *)
(* active when the next block has merely started, and a block that stops   *)
(* being active has a complete successor.                                  *)
C29_CascadeOnCompletion ==
    [][/\ LET view == allMessages(messages', streamingBlocks', isLoading',
                                  streamingMessageIdRef')
          IN \A k \in 1..Len(view) :
                 view[k].role = "assistant"
                 => LET b == view[k].blocks
                        st == isStreamingOf(view[k], isLoading', streamingMessageIdRef')
                    IN activeBlocks(b, st) =
                           IF st
                           THEN {Len(b)} \cup {i \in 1..(Len(b) - 1) :
                                                   (i + 1) \in openBlocks(b, TRUE)}
                           ELSE {}
       /\ StreamingViewStep
          => LET n == Len(streamingBlocks)
                 m == Len(streamingBlocks')
             IN /\ m = n + 1 /\ ~isBlockComplete(streamingBlocks'[m], TRUE, TRUE)
                   => n \in activeBlocks(streamingBlocks', TRUE)
                /\ \A i \in activeBlocks(streamingBlocks, TRUE) :
                       i \notin activeBlocks(streamingBlocks', TRUE)
                       => /\ i < m
                          /\ isBlockComplete(streamingBlocks'[i + 1], i + 1 = m, TRUE)
      ]_vars

C29_Witness ==
    /\ Len(log) >= 3
    /\ log[Len(log) - 2].type = SSEEventType.THINKING
    /\ log[Len(log) - 1].type = SSEEventType.TOOL_CALL_START
    /\ LastOp(log).type = SSEEventType.TOOL_CALL_RESULT
    /\ streamingViewShown(isLoading, streamingBlocks, streamingMessageIdRef)
    /\ Len(streamingBlocks) = 2
    /\ activeBlocks(streamingBlocks, TRUE) = {2}

(* C30: within a turn the streaming sequence only grows at its end: no     *)
(* frame folded between sendMessage and the commit removes or reorders     *)
(* blocks, so the list of block ids before the frame is a prefix of the    *)
(* list of block ids after it.                                             *)
C30_AppendOnlyWithinTurn ==
    [][FoldsFrame
       => /\ IsPrefix(idsOf(blocksRef), idsOf(blocksRef'))
          /\ IsPrefix(idsOf(streamingBlocks), idsOf(streamingBlocks'))
          /\ Len(blocksRef') <= Len(blocksRef) + 1
      ]_vars

C30_Witness ==
    /\ Len(log) >= 4
    /\ IsSend(log[Len(log) - 3])
    /\ log[Len(log) - 2].type = SSEEventType.THINKING
    /\ log[Len(log) - 1].type = SSEEventType.TOOL_CALL_START
    /\ LastOp(log).type = SSEEventType.PLOTLY
    /\ idsOf(blocksRef) = <<"block-1", "block-2", "block-3">>
    /\ blocksRef[2].status = ToolCallStatus.DONE

(* C31: a thinking (text) chunk that arrives when the last block is not a  *)
(* thinking (text) block creates a new block at the end, under a new id,   *)
(* and changes no earlier block of its kind: thinking 'a',                 *)
(* tool_call_start, thinking 'b' at the start of a turn gives two thinking *)
(* blocks 'a' and 'b' around the tool call.                                *)
C31_ChunkAfterOtherKindOpensBlock ==
    [][Handled(ChunkTypes) /\ getLastBlock(blocksRef).type # LastOp(log').type
       => LET n == Len(blocksRef)
          IN /\ Len(blocksRef') = n + 1
             /\ SubSeq(blocksRef', 1, n) = blocksRef
             /\ blocksRef'[n + 1].type = LastOp(log').type
             /\ blocksRef'[n + 1].content = LastOp(log').content
             /\ \A i \in 1..n : blocksRef[i].id # blocksRef'[n + 1].id
      ]_vars

C31_Witness ==
    /\ Len(log) >= 4
    /\ IsSend(log[Len(log) - 3])
    /\ log[Len(log) - 2] = [type |-> SSEEventType.THINKING, content |-> "a"]
    /\ log[Len(log) - 1].type = SSEEventType.TOOL_CALL_START
    /\ LastOp(log) = [type |-> SSEEventType.THINKING, content |-> "b"]
    /\ Len(blocksRef) = 3
    /\ blocksRef[1].type = BlockType.THINKING /\ blocksRef[1].content = "a"
    /\ blocksRef[2].type = BlockType.TOOL_CALL
    /\ blocksRef[3].type = BlockType.THINKING /\ blocksRef[3].content = "b"
    /\ blocksRef[1].id # blocksRef[3].id

IsSendAttempt(op) == op.type \in {"sendMessage", "sendMessageIgnored"}

(* C32: a call of sendMessage while isLoading is true, or with blank text, *)
(* changes nothing: no user message, no pre-assigned id, no EventSource,   *)
(* no request; any other call appends exactly one user message with the    *)
(* trimmed text and sets isLoading.                                        *)
C32_OneTurnInFlight ==
    [][IsSendAttempt(LastOp(log'))
       => IF isLoading \/ Trim(LastOp(log').text) = <<>>
          THEN UNCHANGED <<messages, streamingBlocks, isLoading, blocksRef,
                           streamingMessageIdRef, messageIdCounter, eventSourceRef,
                           sources, sourceCounter, pendingFetch>>
          ELSE /\ Len(messages') = Len(messages) + 1
               /\ IsPrefix(messages, messages')
               /\ LastMessage(messages').role = "user"
               /\ LastMessage(messages').content = Trim(LastOp(log').text)
               /\ isLoading'
               /\ streamingMessageIdRef' # null
               /\ pendingFetch' = pendingFetch + 1
      ]_vars

C32_Witness ==
    /\ Len(log) >= 2
    /\ IsSend(log[Len(log) - 1])
    /\ LastOp(log) = [type |-> "sendMessageIgnored", text |-> <<" ", "h", "i">>]
    /\ isLoading
    /\ Len(messages) = 1
    /\ pendingFetch = 1
    /\ Cardinality(sources) = 1

(* C33: the pre-assigned assistant message id is held exactly while a turn *)
(* is in flight: isLoading is true if and only if streamingMessageIdRef is *)
(* not null.                                                               *)
C33_IdHeldWhileLoading == isLoading <=> streamingMessageIdRef # null

C33_Witness ==
    /\ Len(log) >= 4
    /\ log[Len(log) - 1].type = "fetchRejected"
    /\ IsSend(LastOp(log))
    /\ isLoading
    /\ streamingMessageIdRef = nextMessageId(messageIdCounter - 1)
    /\ Len(messages) = 4

(* C34: whenever no turn is in flight (isLoading false) the streaming      *)
(* block sequence is empty, the accumulator and the published snapshot     *)
(* alike.                                                                  *)
C34_IdleMeansNoStreamingBlocks ==
    ~isLoading => blocksRef = <<>> /\ streamingBlocks = <<>>

(* C35: each accepted sendMessage results in at most one finalized         *)
(* assistant message: as long as the conversation was not reset, every     *)
(* assistant message in messages directly follows the user message of its  *)
(* turn.                                                                   *)
C35_OneAssistantMessagePerTurn ==
    (\A k \in 1..Len(log) : log[k].type # "clearMessages")
    => \A i \in 1..Len(messages) :
           messages[i].role = "assistant" => i > 1 /\ messages[i - 1].role = "user"

(* C36: across consecutive turns without reset, a frame the server pushes  *)
(* is applied once: the text of a pushed thinking chunk is appended once   *)
(* to the block it belongs to, however many connections earlier turns      *)
(* opened.                                                                 *)
C36_FrameAppliedOnce ==
    [][LastOp(log').type = "pushThinking"
       => LET chunk == LastOp(log').content
              last == getLastBlock(blocksRef)
          IN getLastBlock(blocksRef').content =
                 IF last.type = BlockType.THINKING THEN last.content \o chunk ELSE chunk
      ]_vars

(* C37: the ids of the messages in messages are pairwise distinct in every *)
(* reachable state, whether an assistant message took the pre-assigned id  *)
(* or a freshly generated one.                                             *)
C37_MessageIdsUnique ==
    \A i, j \in 1..Len(messages) : i # j => messages[i].id # messages[j].id

C37_Witness ==
    /\ Len(log) >= 4
    /\ log[Len(log) - 2].type = SSEEventType.DONE
    /\ log[Len(log) - 1].type = SSEEventType.THINKING
    /\ LastOp(log).type = SSEEventType.DONE
    /\ Len(messages) = 3
    /\ messages[2].role = "assistant"
    /\ messages[3].role = "assistant"
    /\ messages[2].id = "msg-2"
    /\ messages[3].id = "msg-3"

(* C38: a done event received when the streaming sequence is empty appends *)
(* no message, and still clears isLoading and the pre-assigned id; so an   *)
(* assistant message in messages always has at least one block.            *)
C38_EmptyDoneCommitsNothing ==
    [][/\ Handled({SSEEventType.DONE}) /\ blocksRef = <<>>
          => messages' = messages /\ ~isLoading' /\ streamingMessageIdRef' = null
       /\ \A i \in 1..Len(messages') :
              messages'[i].role = "assistant" => Len(messages'[i].blocks) > 0
      ]_vars

C38_Witness ==
    /\ Len(log) >= 2
    /\ IsSend(log[Len(log) - 1])
    /\ LastOp(log).type = SSEEventType.DONE
    /\ Len(messages) = 1
    /\ messages[1].role = "user"
    /\ ~isLoading
    /\ streamingMessageIdRef = null

\* the state clearMessages leaves behind
Cleared ==
    /\ messages = <<>>
    /\ streamingBlocks = <<>>
    /\ blocksRef = <<>>
    /\ ~isLoading
    /\ streamingMessageIdRef = null
    /\ eventSourceRef = null

(* C39: clearMessages, from any state, leaves messages and the streaming   *)
(* sequence empty, isLoading false, the pre-assigned id null and the       *)
(* current EventSource closed and forgotten; called in the state it leaves *)
(* behind, it changes nothing.                                             *)
C39_ResetClearsAndIsIdempotent ==
    [][LastOp(log').type = "clearMessages"
       => /\ Cleared'
          /\ eventSourceRef \notin sources'
          /\ Cleared => UNCHANGED <<messages, streamingBlocks, blocksRef, isLoading,
                                    streamingMessageIdRef, eventSourceRef, sources,
                                    sourceCounter, pendingFetch, blockIdCounter,
                                    messageIdCounter>>
      ]_vars

C39_Witness ==
    /\ Len(log) >= 3
    /\ IsSend(log[Len(log) - 2])
    /\ log[Len(log) - 1].type = SSEEventType.TOOL_CALL_START
    /\ LastOp(log).type = "clearMessages"
    /\ Cleared
    /\ sources = {}
    /\ pendingFetch = 1

====
